---- MODULE Spec2Model ----
(***************************************************************************)
(* State-machine model of dashboard_streamlit_app.py: the memoized         *)
(* load_data pipeline (file check, CSV and GeoJSON load, key               *)
(* normalisation, left merge, numeric coercion, zone labelling, map        *)
(* centre), the module-level initialisation that consumes its result, and  *)
(* the render steps of one script run (sidebar, map, scatter, ranking).    *)
(*                                                                         *)
(* Conventions.  A text is a sequence of one-character strings.  A cell    *)
(* is a record tagged by k: "str" (a text), "nan" (pandas NaN), "None",    *)
(* "num" (a float, held in tenths so that one fractional digit is exact),  *)
(* "int" (an integer), "geom" (a polygon, abstracted by its centroid).     *)
(***************************************************************************)
EXTENDS Integers, Sequences, FiniteSets, TLC

\* ------------------------------------------------------------------ bounds
MaxCsvRows == 2
MaxGeoRows == 2
MaxVol == 2

\* ------------------------------------------------------------------- cells
NaN == [k |-> "nan"]
None == [k |-> "None"]
Str(s) == [k |-> "str", v |-> s]
Num(t) == [k |-> "num", v |-> t]
IntCell(n) == [k |-> "int", v |-> n]
Geom(x, y) == [k |-> "geom", x |-> x, y |-> y]

\* str.lower on one character (the letters the model's names use)
Lower(c) ==
  CASE c = "G" -> "g" [] c = "R" -> "r" [] c = "A" -> "a" [] c = "S" -> "s"
    [] c = "C" -> "c" [] c = "I" -> "i" [] c = "À" -> "à" [] c = "H" -> "h"
    [] c = "N" -> "n" [] OTHER -> c

StrLower(s) == [i \in 1..Len(s) |-> Lower(s[i])]

RECURSIVE LStrip(_)
LStrip(s) == IF s # <<>> /\ Head(s) = " " THEN LStrip(Tail(s)) ELSE s

RECURSIVE RStrip(_)
RStrip(s) ==
  IF s # <<>> /\ s[Len(s)] = " " THEN RStrip(SubSeq(s, 1, Len(s) - 1)) ELSE s

StrStrip(s) == RStrip(LStrip(s))

\* Series.astype(str): a text stays, NaN prints as "nan", None as "None"
AsTypeStr(cell) ==
  CASE cell.k = "str" -> cell.v
    [] cell.k = "nan" -> <<"n", "a", "n">>
    [] OTHER -> <<"N", "o", "n", "e">>

\* a join key that skips str.lower
IdMatchNoLower(cell) == StrStrip(AsTypeStr(cell))

\* the join key: astype(str).str.strip().str.lower()
IdMatch(cell) == StrLower(StrStrip(AsTypeStr(cell)))

\* ----------------------------------------------------------------- numbers
Digits == {"0", "1", "2", "3", "4", "5", "6", "7", "8", "9"}

DigitVal(c) ==
  CASE c = "0" -> 0 [] c = "1" -> 1 [] c = "2" -> 2 [] c = "3" -> 3
    [] c = "4" -> 4 [] c = "5" -> 5 [] c = "6" -> 6 [] c = "7" -> 7
    [] c = "8" -> 8 [] OTHER -> 9

RECURSIVE IntOf(_)
IntOf(s) ==
  IF s = <<>> THEN 0
  ELSE 10 * IntOf(SubSeq(s, 1, Len(s) - 1)) + DigitVal(s[Len(s)])

AllDigits(s) == \A i \in 1..Len(s) : s[i] \in Digits

\* the float a text parses to, in tenths, or NaN when it is not a number
\* (texts carry at most one fractional digit)
ParseFloat(s) ==
  LET neg == s # <<>> /\ Head(s) = "-"
      u == IF neg THEN Tail(s) ELSE s
      dots == {i \in 1..Len(u) : u[i] = "."}
      dot == IF dots = {} THEN Len(u) + 1 ELSE CHOOSE i \in dots : TRUE
      ip == SubSeq(u, 1, dot - 1)
      fp == SubSeq(u, dot + 1, Len(u))
      ok == /\ Cardinality(dots) <= 1
            /\ AllDigits(ip) /\ AllDigits(fp)
            /\ Len(ip) + Len(fp) > 0 /\ Len(fp) <= 1
      mag == 10 * IntOf(ip) + IntOf(fp)
  IN IF ok THEN Num(IF neg THEN 0 - mag ELSE mag) ELSE NaN

\* pd.to_numeric(series, errors='coerce') on one cell
ToNumeric(cell) ==
  CASE cell.k = "num" -> cell
    [] cell.k = "int" -> Num(10 * cell.v)
    [] cell.k = "str" -> ParseFloat(cell.v)
    [] OTHER -> NaN

\* Series.fillna(value) on one cell
FillNa(cell, value) == IF cell.k \in {"nan", "None"} THEN value ELSE cell

\* Series.astype(int) on one float cell: truncation toward zero
AsTypeInt(cell) ==
  IF cell.v >= 0 THEN IntCell(cell.v \div 10)
  ELSE IntCell(0 - ((0 - cell.v) \div 10))

\* ------------------------------------------------------------ zone catalog
NOMS_ZONES ==
  [i \in 0..4 |->
     CASE i = 0 -> "Residencial / Zona alta"
       [] i = 1 -> "Centre Neuràlgic"
       [] i = 2 -> "Vida de Barri"
       [] i = 3 -> "Perifèria / Zona Tranquila"
       [] OTHER -> "Zones d'Alta Saturació / Turisme"]

\* Series.map(NOMS_ZONES) on one integer cell: NaN for an id not in the dict
MapZones(cell) ==
  IF cell.v \in DOMAIN NOMS_ZONES THEN Str(NOMS_ZONES[cell.v]) ELSE NaN

\* ------------------------------------------------------------------- files
FILE_CSV == "dades_dashboard_completes.csv"
FILE_GEO == "barris.geojson"

\* A file on disk is NoFile, Corrupt (the reader raises on it), a CSV
\*   [k |-> "csv", columns |-> Seq(header), rows |-> Seq(Seq(cell))]
\* or a GeoJSON
\*   [k |-> "geojson", keys |-> Seq(property name), crs |-> name or "",
\*    features |-> Seq([props |-> Seq(cell), geometry |-> cell])]
NoFile == [k |-> "missing"]
Corrupt == [k |-> "corrupt"]

PyStr(s) == [k |-> "pystr", v |-> s]

Range(s) == {s[i] : i \in 1..Len(s)}

ColIndex(columns, name) == CHOOSE i \in 1..Len(columns) : columns[i] = name

\* Index.str.strip on one header (the padded header of the model's files)
StripHeader(h) == IF h = " Nom_Barri " THEN "Nom_Barri" ELSE h

\* lines 67-76: read_csv, strip the headers, rename the first column when no
\* Nom_Barri column exists, add id_match
ReadCsv(f) ==
  LET stripped == [i \in 1..Len(f.columns) |-> StripHeader(f.columns[i])]
      columns == IF "Nom_Barri" \in Range(stripped) THEN stripped
                 ELSE [stripped EXCEPT ![1] = "Nom_Barri"]
      name == ColIndex(columns, "Nom_Barri")
  IN [columns |-> columns,
      rows |-> f.rows,
      id_match |-> [j \in 1..Len(f.rows) |-> IdMatch(f.rows[j][name])]]

GeoCandidates == <<"n_barri", "NOM", "barrio", "Name">>

\* line 81: the first candidate that is a column, or "" (falsy)
GeoCol(columns) ==
  LET found == {i \in 1..Len(GeoCandidates) : GeoCandidates[i] \in Range(columns)}
  IN IF found = {} THEN ""
     ELSE GeoCandidates[CHOOSE i \in found : \A j \in found : i <= j]

\* line 79: a feature collection without features has no property columns
ReadGeo(f) ==
  [columns |-> IF f.features = <<>> THEN <<>> ELSE f.keys,
   rows |-> f.features,
   crs |-> f.crs]

\* ------------------------------------------------------------------- merge
RECURSIVE MatchesFrom(_, _, _)
MatchesFrom(key, dkeys, j) ==
  IF j > Len(dkeys) THEN <<>>
  ELSE (IF dkeys[j] = key THEN <<j>> ELSE <<>>) \o MatchesFrom(key, dkeys, j + 1)

\* an inner merge: a left row without a match is dropped
RECURSIVE MergePairsInner(_, _, _)
MergePairsInner(gkeys, dkeys, i) ==
  IF i > Len(gkeys) THEN <<>>
  ELSE LET m == MatchesFrom(gkeys[i], dkeys, 1)
       IN [n \in 1..Len(m) |-> <<i, m[n]>>] \o MergePairsInner(gkeys, dkeys, i + 1)

\* DataFrame.merge(on='id_match', how='left') as <<left row, right row>> index
\* pairs in output order: one pair per matching right row, <<i, 0>> for a
\* left row that matches none
RECURSIVE MergePairs(_, _, _)
MergePairs(gkeys, dkeys, i) ==
  IF i > Len(gkeys) THEN <<>>
  ELSE LET m == MatchesFrom(gkeys[i], dkeys, 1)
       IN (IF m = <<>> THEN << <<i, 0>> >> ELSE [n \in 1..Len(m) |-> <<i, m[n]>>])
            \o MergePairs(gkeys, dkeys, i + 1)

\* lines 83-86.  The merged table is [columns, rows, crs]; a row is
\* [geo_i, csv_i, v]: the boundary feature and measures row it came from
\* (csv_i = 0: none) and its cells by column name.  A non-key column name
\* held by both sides is suffixed by pandas, so it is no column of the result.
Merge(gdf, df, geo_col) ==
  LET gkeys == [i \in 1..Len(gdf.rows) |->
                  IdMatch(gdf.rows[i].props[ColIndex(gdf.columns, geo_col)])]
      gcols == Range(gdf.columns) \cup {"geometry"}
      dcols == Range(df.columns)
      both == gcols \cap dcols
      columns == ((gcols \cup dcols) \ both) \cup {"id_match"}
      pairs == MergePairs(gkeys, df.id_match, 1)
      Cell(p, c) ==
        IF c = "id_match" THEN Str(gkeys[p[1]])
        ELSE IF c = "geometry" THEN gdf.rows[p[1]].geometry
        ELSE IF c \in gcols THEN gdf.rows[p[1]].props[ColIndex(gdf.columns, c)]
        ELSE IF p[2] = 0 THEN NaN
        ELSE df.rows[p[2]][ColIndex(df.columns, c)]
  IN [columns |-> columns,
      rows |-> [n \in 1..Len(pairs) |->
                  [geo_i |-> pairs[n][1], csv_i |-> pairs[n][2],
                   v |-> [c \in columns |-> Cell(pairs[n], c)]]],
      crs |-> gdf.crs]

\* ---------------------------------------------------- coercion and labels
cols_num ==
  <<"res_viajes", "tur_viajes", "in_total_viajes", "num_paradas_tmb", "presion_tmb">>

\* lines 89-92: every cols_num column that is a column of merged becomes
\* to_numeric(errors='coerce').fillna(0); an absent column is skipped
CoerceNumeric(merged) ==
  [merged EXCEPT !.rows =
     [n \in 1..Len(merged.rows) |->
        [merged.rows[n] EXCEPT !.v =
           [c \in merged.columns |->
              IF c \in Range(cols_num)
              THEN FillNa(ToNumeric(merged.rows[n].v[c]), Num(0))
              ELSE merged.rows[n].v[c]]]]]

\* the zone of a raw cluster cell when NaN is filled with 0
ZoneOfFillZero(cell) ==
  LET id == AsTypeInt(FillNa(ToNumeric(cell), Num(0)))
  IN [id |-> id, zone |-> FillNa(MapZones(id), Str("Altres"))]

\* lines 96-97 on one cell: the coerced integer id and its zone name
ZoneOf(cell) ==
  LET id == AsTypeInt(FillNa(ToNumeric(cell), Num(10 * (0 - 1))))
  IN [id |-> id, zone |-> FillNa(MapZones(id), Str("Altres"))]

\* lines 95-99
AssignZones(merged) ==
  LET has == "cluster_kmeans" \in merged.columns
      columns == merged.columns \cup {"Nom_Zona"}
      Row(r) ==
        [r EXCEPT !.v =
           [c \in columns |->
              IF c = "Nom_Zona"
              THEN (IF has THEN ZoneOf(r.v["cluster_kmeans"]).zone ELSE Str("General"))
              ELSE IF c = "cluster_kmeans" THEN ZoneOf(r.v[c]).id
              ELSE r.v[c]]]
  IN [merged EXCEPT !.columns = columns,
                    !.rows = [n \in 1..Len(merged.rows) |-> Row(merged.rows[n])]]

\* -------------------------------------------------------------- map centre
\* GeoDataFrame.to_crs(epsg=4326) on one geometry cell.  Coordinates are
\* hundredths of a degree in EPSG:4326 and kilometres in the projected
\* system; the projection is abstracted to a fixed shift around Barcelona.
ToCrs4326(cell) ==
  IF cell.k = "geom" THEN Geom(cell.x - 214, cell.y - 443) ELSE cell

\* lines 102-103
Reproject(merged) ==
  IF merged.crs # "" /\ merged.crs # "EPSG:4326"
  THEN [merged EXCEPT
          !.crs = "EPSG:4326",
          !.rows = [n \in 1..Len(merged.rows) |->
                      [merged.rows[n] EXCEPT !.v["geometry"] = ToCrs4326(@)]]]
  ELSE merged

\* GeoSeries.centroid.x / .y on one geometry cell: NaN for a missing or
\* empty geometry
CentroidX(cell) == IF cell.k = "geom" THEN Num(cell.x) ELSE NaN
CentroidY(cell) == IF cell.k = "geom" THEN Num(cell.y) ELSE NaN

RECURSIVE SumNums(_)
SumNums(s) ==
  IF s = <<>> THEN 0
  ELSE (IF Head(s).k = "num" THEN Head(s).v ELSE 0) + SumNums(Tail(s))

\* Series.mean(): NaN cells are skipped; the mean of nothing is NaN.  The
\* mean is kept as the fraction n / d.
Mean(s) ==
  LET d == Cardinality({i \in 1..Len(s) : s[i].k = "num"})
  IN IF d = 0 THEN NaN ELSE [k |-> "mean", n |-> SumNums(s), d |-> d]

\* lines 104-106
MapCenter(merged) ==
  [k |-> "tuple",
   lat |-> Mean([n \in 1..Len(merged.rows) |-> CentroidY(merged.rows[n].v["geometry"])]),
   lon |-> Mean([n \in 1..Len(merged.rows) |-> CentroidX(merged.rows[n].v["geometry"])])]

\* --------------------------------------------------------------- load_data
MSG_MISSING == "Error: Falten els fitxers de dades"
MSG_NO_NAMES == "Error: El GeoJSON no té columna de noms."
MSG_EXCEPTION == "Error de càrrega"

\* lines 60-109: the body of load_data on the two files on disk; the result
\* is the pair the function returns
load_data(csv, geo) ==
  IF csv = NoFile \/ geo = NoFile THEN <<None, PyStr(MSG_MISSING)>>
  ELSE IF csv = Corrupt \/ geo = Corrupt THEN <<None, PyStr(MSG_EXCEPTION)>>
  ELSE
    LET df == ReadCsv(csv)
        gdf == ReadGeo(geo)
        geo_col == GeoCol(gdf.columns)
    IN IF geo_col = "" THEN <<None, PyStr(MSG_NO_NAMES)>>
       ELSE LET merged == Reproject(AssignZones(CoerceNumeric(Merge(gdf, df, geo_col))))
            IN <<[k |-> "table", columns |-> merged.columns, rows |-> merged.rows,
                  crs |-> merged.crs],
                 MapCenter(merged)>>

\* ------------------------------------------------------------------- state
VARIABLES
  disk,          \* the two data files, by path
  cache,         \* st.cache_data's entry for load_data (it takes no argument)
  body_runs,     \* history: how many times the body of load_data has run
  disk_at_load,  \* history: the files the cached result was computed from
  disk_at_call,  \* history: the files on disk when this run called load_data
  data_loaded,   \* line 112
  gdf,           \* line 114, and the label column of line 239
  map_center,    \* line 114
  pc,            \* where the script run is
  out,           \* what this run has put on the page
  exception,     \* the uncaught exception that ended this run, or ""
  tema,          \* the radio of line 160 (widget state)
  top_n,         \* the slider of line 278 (widget state)
  df_rank,       \* line 281, as the index labels of its rows, in order
  df_table       \* line 337, as the index labels of its rows, in order

vars ==
  <<disk, cache, body_runs, disk_at_load, disk_at_call, data_loaded, gdf, map_center,
    pc, out, exception, tema, top_n, df_rank, df_table>>

Unset == [k |-> "unset"]
NoEntry == [k |-> "miss"]

\* a cache that keeps nothing
CacheStoreNothing(value) == NoEntry

\* @st.cache_data, line 59: the entry is keyed by the function and its
\* arguments; load_data has none, so there is one entry, kept for the
\* life of the process whatever happens to the files
CacheStore(value) == [k |-> "hit", value |-> value]

TEMAS == {"Zona (Cluster)", "Volum Total", "Pressió Transport"}
TOP_N_MIN == 5
TOP_N_MAX == 30
TOP_N_DEFAULT == 15

\* ----------------------------------------------------------------- sorting
Vol(table, i) == table.rows[i].v["in_total_viajes"].v

\* DataFrame.sort_values(column) with the default kind='quicksort', which is
\* not stable: every ordering of the index labels that is monotone in the
\* key is a possible result
RECURSIVE SortedOrders(_, _, _)
SortedOrders(table, S, ascending) ==
  IF S = {} THEN {<<>>}
  ELSE LET first == {i \in S : \A j \in S :
                       IF ascending THEN Vol(table, i) <= Vol(table, j)
                       ELSE Vol(table, i) >= Vol(table, j)}
       IN UNION {{<<i>> \o t : t \in SortedOrders(table, S \ {i}, ascending)} : i \in first}

\* a descending sort that returns the ascending order
SortValuesWrongWay(table, ascending) ==
  SortedOrders(table, 1..Len(table.rows), TRUE)

SortValues(table, ascending) == SortedOrders(table, 1..Len(table.rows), ascending)

\* DataFrame.head(n) and DataFrame.tail(n)
HeadN(s, n) == SubSeq(s, 1, IF n < Len(s) THEN n ELSE Len(s))
TailN(s, n) == SubSeq(s, IF n < Len(s) THEN Len(s) - n + 1 ELSE 1, Len(s))

\* ten times Series.quantile(0.90) (linear interpolation) of a column
Quantile90x10(table, c) ==
  LET n == Len(table.rows)
      x(i) == table.rows[i].v[c].v
      \* the k-th smallest value of the column
      val(k) == CHOOSE y \in {x(i) : i \in 1..n} :
                  /\ Cardinality({i \in 1..n : x(i) < y}) < k
                  /\ k <= Cardinality({i \in 1..n : x(i) <= y})
      h10 == 9 * (n - 1)
      lo == h10 \div 10
      hi == IF lo + 2 <= n THEN lo + 2 ELSE n
  IN 10 * val(lo + 1) + (h10 - 10 * lo) * (val(hi) - val(lo + 1))

\* lines 235-239: the name of a row above either 90th percentile, else ""
WithLabels(table) ==
  LET limit_x == Quantile90x10(table, "num_paradas_tmb")
      limit_y == Quantile90x10(table, "in_total_viajes")
      Label(r) ==
        IF 10 * r.v["in_total_viajes"].v > limit_y
           \/ 10 * r.v["num_paradas_tmb"].v > limit_x
        THEN r.v["Nom_Barri"] ELSE Str(<<>>)
      columns == table.columns \cup {"label"}
  IN [table EXCEPT
        !.columns = columns,
        !.rows = [n \in 1..Len(table.rows) |->
                    [table.rows[n] EXCEPT !.v =
                       [c \in columns |->
                          IF c = "label" THEN Label(table.rows[n])
                          ELSE table.rows[n].v[c]]]]]

\* ------------------------------------------------------------ script steps
Crash(name) ==
  /\ exception' = name
  /\ pc' = "crashed"

\* line 112: load_data() through the cache
CallLoadData ==
  /\ pc = "start"
  /\ IF cache = NoEntry
     THEN LET r == load_data(disk[FILE_CSV], disk[FILE_GEO])
          IN /\ data_loaded' = r
             /\ cache' = CacheStore(r)
             /\ body_runs' = body_runs + 1
             /\ disk_at_load' = disk
     ELSE /\ data_loaded' = cache.value
          /\ UNCHANGED <<cache, body_runs, disk_at_load>>
  /\ disk_at_call' = disk
  /\ pc' = "unpack"
  /\ UNCHANGED <<disk, gdf, map_center, out, exception, tema, top_n, df_rank, df_table>>

\* lines 113-114: a tuple of two is truthy, so st.stop() needs an empty one
Unpack ==
  /\ pc = "unpack"
  /\ IF Len(data_loaded) = 0
     THEN pc' = "stopped" /\ UNCHANGED <<gdf, map_center>>
     ELSE /\ gdf' = data_loaded[1]
          /\ map_center' = data_loaded[2]
          /\ pc' = "check_error"
  /\ UNCHANGED <<disk, cache, body_runs, disk_at_load, disk_at_call, data_loaded, out, exception,
                 tema, top_n, df_rank, df_table>>

\* lines 117-119: isinstance(gdf, str)
CheckError ==
  /\ pc = "check_error"
  /\ IF gdf.k = "pystr"
     THEN out' = out \cup {"error"} /\ pc' = "stopped"
     ELSE out' = out /\ pc' = "sidebar"
  /\ UNCHANGED <<disk, cache, body_runs, disk_at_load, disk_at_call, data_loaded, gdf, map_center,
                 exception, tema, top_n, df_rank, df_table>>

\* lines 124-153: legend, title, tabs; none reads the table
Sidebar ==
  /\ pc = "sidebar"
  /\ out' = out \cup {"sidebar", "title"}
  /\ pc' = "tab1"
  /\ UNCHANGED <<disk, cache, body_runs, disk_at_load, disk_at_call, data_loaded, gdf, map_center,
                 exception, tema, top_n, df_rank, df_table>>

\* lines 188-199: the column the map is coloured by
ColorColumn(t) ==
  CASE t = "Zona (Cluster)" -> "Nom_Zona"
    [] t = "Volum Total" -> "in_total_viajes"
    [] OTHER -> "presion_tmb"

\* lines 156-228
Tab1 ==
  /\ pc = "tab1"
  /\ IF gdf.k # "table"
     THEN Crash("AttributeError") /\ out' = out
     ELSE LET hover == {"num_paradas_tmb", "presion_tmb"} \cup
                         (IF "res_viajes" \in gdf.columns
                          THEN {"res_viajes", "tur_viajes"} ELSE {})
          IN IF "Nom_Barri" \notin gdf.columns
             THEN Crash("KeyError") /\ out' = out
             ELSE IF ~((hover \cup {ColorColumn(tema)}) \subseteq gdf.columns)
             THEN Crash("ValueError") /\ out' = out
             ELSE /\ out' = out \cup {"map"}
                  /\ pc' = "tab2"
                  /\ exception' = exception
  /\ UNCHANGED <<disk, cache, body_runs, disk_at_load, disk_at_call, data_loaded, gdf, map_center,
                 tema, top_n, df_rank, df_table>>

\* lines 231-271
Tab2 ==
  /\ pc = "tab2"
  /\ IF ~({"num_paradas_tmb", "in_total_viajes", "Nom_Barri"} \subseteq gdf.columns)
     THEN Crash("KeyError") /\ UNCHANGED <<gdf, out>>
     ELSE /\ gdf' = WithLabels(gdf)
          /\ out' = out \cup {"scatter"}
          /\ pc' = "tab3_rank"
          /\ exception' = exception
  /\ UNCHANGED <<disk, cache, body_runs, disk_at_load, disk_at_call, data_loaded, map_center,
                 tema, top_n, df_rank, df_table>>

\* lines 274-326: the ranking and its bar chart
Tab3Rank ==
  /\ pc = "tab3_rank"
  /\ IF "in_total_viajes" \notin gdf.columns
     THEN Crash("KeyError") /\ UNCHANGED <<df_rank, out>>
     ELSE /\ \E order \in SortValues(gdf, TRUE) : df_rank' = TailN(order, top_n)
          /\ out' = out \cup {"bar"}
          /\ pc' = "tab3_table"
          /\ exception' = exception
  /\ UNCHANGED <<disk, cache, body_runs, disk_at_load, disk_at_call, data_loaded, gdf, map_center,
                 tema, top_n, df_table>>

\* lines 332-334
ColsShow(table) ==
  {"Nom_Barri", "Nom_Zona", "in_total_viajes", "presion_tmb"} \cup
    (IF "res_viajes" \in table.columns THEN {"res_viajes", "tur_viajes"} ELSE {})

\* lines 328-343: the detail table
Tab3Table ==
  /\ pc = "tab3_table"
  /\ IF ~(ColsShow(gdf) \subseteq gdf.columns)
     THEN Crash("KeyError") /\ UNCHANGED <<df_table, out>>
     ELSE /\ \E order \in SortValues(gdf, FALSE) : df_table' = HeadN(order, top_n)
          /\ out' = out \cup {"table"}
          /\ pc' = "done"
          /\ exception' = exception
  /\ UNCHANGED <<disk, cache, body_runs, disk_at_load, disk_at_call, data_loaded, gdf, map_center,
                 tema, top_n, df_rank>>

Script == CallLoadData \/ Unpack \/ CheckError \/ Sidebar \/ Tab1 \/ Tab2 \/ Tab3Rank \/ Tab3Table

\* ------------------------------------------------------------- environment
SliderChoices == {TOP_N_MIN, TOP_N_MIN + 1, TOP_N_MAX}

\* a widget is changed, or the page is reloaded: the script runs again from
\* the top with fresh module variables; the widget state and the cache stay
Rerun ==
  /\ pc \in {"done", "stopped", "crashed"}
  /\ \E t \in TEMAS, n \in SliderChoices \cup {top_n} : tema' = t /\ top_n' = n
  /\ pc' = "start"
  /\ data_loaded' = <<>>
  /\ gdf' = Unset
  /\ map_center' = Unset
  /\ out' = {}
  /\ exception' = ""
  /\ df_rank' = <<>>
  /\ df_table' = <<>>
  /\ UNCHANGED <<disk, cache, body_runs, disk_at_load, disk_at_call>>

\* ------------------------------------------------------------- input files
T_GRACIA_UPPER == <<"G", "R", "À", "C", "I", "A", " ">>
T_GRACIA == <<"G", "r", "à", "c", "i", "a">>
T_SANTS == <<"S", "a", "n", "t", "s">>
T_SANTS_PADDED == <<" ", "s", "a", "n", "t", "s">>
T_HORTA == <<"H", "o", "r", "t", "a">>
T_1500 == <<"1", "5", "0", "0">>

CsvNames == {Str(T_GRACIA_UPPER), Str(T_SANTS), NaN}
GeoNames == {Str(T_GRACIA), Str(T_SANTS_PADDED), Str(T_HORTA)}
NumTexts == {Str(T_1500), Str(<<"n", "/", "a">>), NaN}
ClusterTexts ==
  {Str(<<"0">>), Str(<<"1">>), Str(<<"4">>), Str(<<"5">>), Str(<<"1", ".", "5">>),
   Str(<<"-", "0", ".", "5">>), Str(<<"-", "1">>), Str(<<"?">>), NaN}

SeqsUpTo(S, n) == UNION {[1..m -> S] : m \in 0..n}

LayoutFull ==
  <<"Nom_Barri", "in_total_viajes", "res_viajes", "tur_viajes", "num_paradas_tmb",
    "presion_tmb", "cluster_kmeans">>
LayoutPadded == <<" Nom_Barri ", "in_total_viajes", "num_paradas_tmb", "presion_tmb">>
LayoutBare == <<"Barri", "in_total_viajes">>

\* a CSV whose every numeric column of a row holds the same text
CsvFile(layout, rows) ==
  [k |-> "csv", columns |-> layout,
   rows |-> [j \in 1..Len(rows) |->
               [c \in 1..Len(layout) |->
                  IF c = 1 THEN rows[j].name
                  ELSE IF layout[c] = "cluster_kmeans" THEN rows[j].cluster
                  ELSE rows[j].num]]]

\* a GeoJSON whose last property holds the name
GeoFile(keys, crs, feats) ==
  [k |-> "geojson", keys |-> keys, crs |-> crs,
   features |-> [i \in 1..Len(feats) |->
                   [props |-> [c \in 1..Len(keys) |->
                                 IF c = Len(keys) THEN feats[i].name ELSE Str(<<"-">>)],
                    geometry |-> feats[i].geometry]]]

G_BCN == Geom(217, 4139)
G_BCN_UTM == Geom(431, 4582)
G_NORTH_UTM == Geom(433, 4586)

Disk(csv, geo) == (FILE_CSV :> csv) @@ (FILE_GEO :> geo)

\* files that vary the names on both sides
JoinInputs ==
  {Disk(CsvFile(LayoutFull, rows), GeoFile(<<"NOM">>, "EPSG:4326", feats)) :
     rows \in SeqsUpTo([name : CsvNames, num : {Str(T_1500), NaN},
                        cluster : {Str(<<"2">>)}], MaxCsvRows),
     feats \in SeqsUpTo([name : GeoNames, geometry : {G_BCN}], MaxGeoRows)}

\* files that vary the columns of both files and the numeric texts
ShapeInputs ==
  {Disk(CsvFile(layout, <<[name |-> Str(T_GRACIA_UPPER), num |-> num,
                          cluster |-> Str(<<"3">>)]>>),
        GeoFile(keys, "EPSG:4326",
                <<[name |-> Str(T_GRACIA), geometry |-> G_BCN],
                  [name |-> Str(T_HORTA), geometry |-> G_BCN]>>)) :
     layout \in {LayoutFull, LayoutPadded, LayoutBare},
     num \in NumTexts,
     keys \in {<<"NOM">>, <<"barrio", "n_barri">>, <<"id">>}}

\* files that vary the cluster ids
ZoneInputs ==
  {Disk(CsvFile(LayoutFull, rows),
        GeoFile(<<"NOM">>, "EPSG:4326",
                <<[name |-> Str(T_GRACIA), geometry |-> G_BCN],
                  [name |-> Str(T_HORTA), geometry |-> G_BCN]>>)) :
     rows \in SeqsUpTo([name : {Str(T_GRACIA_UPPER)}, num : {Str(T_1500)},
                        cluster : ClusterTexts], MaxCsvRows)}

\* files that vary the geometries and the reference system
CenterInputs ==
  {Disk(CsvFile(LayoutFull,
                <<[name |-> Str(T_GRACIA_UPPER), num |-> Str(T_1500),
                   cluster |-> Str(<<"1">>)]>>),
        GeoFile(<<"NOM">>, crs, feats)) :
     crs \in {"", "EPSG:4326", "EPSG:25831"},
     feats \in SeqsUpTo([name : {Str(T_GRACIA), Str(T_HORTA)},
                         geometry : {None, G_BCN_UTM, G_NORTH_UTM}], MaxGeoRows)}

LoadInputs ==
  JoinInputs \cup ShapeInputs \cup ZoneInputs \cup CenterInputs
    \cup {Disk(c, g) : c \in {NoFile, Corrupt}, g \in {NoFile, Corrupt}}

\* files for the ranking: TOP_N_MIN + 1 areas b1, b2, ... with the given
\* volumes, at most two areas sharing one, every other measure 1
DigitText(n) == <<(<<"0", "1", "2", "3", "4", "5", "6", "7", "8", "9">>)[n + 1]>>

LayoutRank == <<"Nom_Barri", "in_total_viajes", "num_paradas_tmb", "presion_tmb">>

RankDisk(vols) ==
  Disk([k |-> "csv", columns |-> LayoutRank,
        rows |-> [i \in 1..Len(vols) |->
                    <<Str(<<"b">> \o DigitText(i)), Str(DigitText(vols[i])),
                      Str(<<"1">>), Str(<<"1">>)>>]],
       GeoFile(<<"NOM">>, "EPSG:4326",
               [i \in 1..Len(vols) |->
                  [name |-> Str(<<"b">> \o DigitText(i)), geometry |-> G_BCN]]))

RankInputs ==
  {RankDisk(vols) :
     vols \in {f \in [1..(TOP_N_MIN + 1) -> 0..MaxVol] :
                 \A x \in 0..MaxVol :
                   Cardinality({i \in DOMAIN f : f[i] = x}) <= 2}}

\* the files of the full model: absent, unreadable, complete, a CSV without
\* most measures, a GeoJSON without a name column
CsvSmall ==
  CsvFile(LayoutFull,
          <<[name |-> Str(T_GRACIA_UPPER), num |-> Str(T_1500), cluster |-> Str(<<"1">>)],
            [name |-> Str(T_SANTS), num |-> NaN, cluster |-> Str(<<"?">>)]>>)

CsvBare ==
  CsvFile(LayoutBare,
          <<[name |-> Str(T_SANTS), num |-> Str(T_1500), cluster |-> NaN]>>)

GeoSmall(keys) ==
  GeoFile(keys, "EPSG:25831",
          <<[name |-> Str(T_GRACIA), geometry |-> G_BCN_UTM],
            [name |-> Str(T_SANTS_PADDED), geometry |-> G_NORTH_UTM]>>)

Disks ==
  {Disk(c, g) : c \in {NoFile, Corrupt, CsvSmall, CsvBare},
                g \in {NoFile, GeoSmall(<<"NOM">>), GeoSmall(<<"id">>)}}

\* the data files are replaced on disk; nothing tells the running app.  A
\* run reads them only inside load_data, so a change is taken between runs.
FileChange ==
  /\ pc \in {"done", "stopped", "crashed"}
  /\ \E d \in Disks : d # disk /\ disk' = d
  /\ UNCHANGED <<cache, body_runs, disk_at_load, disk_at_call, data_loaded, gdf, map_center, pc, out,
                 exception, tema, top_n, df_rank, df_table>>

\* ---------------------------------------------------------- specifications
InitWith(d, n) ==
  /\ disk = d
  /\ cache = NoEntry
  /\ body_runs = 0
  /\ disk_at_load = d
  /\ disk_at_call = d
  /\ data_loaded = <<>>
  /\ gdf = Unset
  /\ map_center = Unset
  /\ pc = "start"
  /\ out = {}
  /\ exception = ""
  /\ tema = "Zona (Cluster)"
  /\ top_n = n
  /\ df_rank = <<>>
  /\ df_table = <<>>

\* one process: script runs, reruns and file changes
Init == \E d \in Disks : InitWith(d, TOP_N_DEFAULT)
Next == Script \/ Rerun \/ FileChange
Spec == Init /\ [][Next]_vars

\* load_data on every pair of files of LoadInputs
InitLoad == \E d \in LoadInputs : InitWith(d, TOP_N_DEFAULT)
SpecLoad == InitLoad /\ [][CallLoadData]_vars

\* one script run on every ranking table and slider choice
InitRank == \E d \in RankInputs, n \in SliderChoices : InitWith(d, n)
SpecRank == InitRank /\ [][Script]_vars

\* ------------------------------------------------------------------ claims
\* what the formulas read: the result of the last call and the files it
\* was computed from
Loaded == Len(data_loaded) = 2
Succeeded == Loaded /\ data_loaded[1].k = "table"
Failed == Loaded /\ data_loaded[1] = None
CsvIn == disk_at_load[FILE_CSV]
GeoIn == disk_at_load[FILE_GEO]
OutRows == data_loaded[1].rows
OutColumns == data_loaded[1].columns
\* the raw name of boundary feature i and of measures row j
GeoName(i) == GeoIn.features[i].props[ColIndex(GeoIn.keys, GeoCol(GeoIn.keys))]
CsvName(j) == CsvIn.rows[j][ColIndex(ReadCsv(CsvIn).columns, "Nom_Barri")]
\* the raw cell of measures row j in column c
CsvRaw(j, c) == CsvIn.rows[j][ColIndex(ReadCsv(CsvIn).columns, c)]
CsvHas(c) == c \in Range(ReadCsv(CsvIn).columns)
\* how many output rows come from boundary feature i
Copies(i) == Cardinality({n \in 1..Len(OutRows) : OutRows[n].geo_i = i})
\* the measures rows whose key equals that of boundary feature i
Matching(i) ==
  {j \in 1..Len(CsvIn.rows) :
     StrLower(StrStrip(AsTypeStr(CsvName(j)))) = StrLower(StrStrip(AsTypeStr(GeoName(i))))}

\* C1: after a failed load (missing file, no name column, other exception)
\* the run reports the failure and halts: it is still inside the
\* initialisation block, or it has stopped with the error on the page; it
\* never goes on to the steps that read the table.
C1_FailedLoadHalts ==
  Failed => \/ pc \in {"unpack", "check_error"}
            \/ pc = "stopped" /\ "error" \in out

\* C2 (as stated): the output holds every boundary row exactly once, so it
\* has as many rows as the boundary file.
C2_EachBoundaryRowOnce ==
  Succeeded => /\ Len(OutRows) = Len(GeoIn.features)
               /\ \A i \in 1..Len(GeoIn.features) : Copies(i) = 1

\* C2 (amended): no boundary row is dropped; a boundary row appears once
\* per measures row with its key, once when there is none, and the output
\* keeps the boundary order.
C2_LeftJoinMultiplicity ==
  Succeeded =>
    /\ \A i \in 1..Len(GeoIn.features) :
         Copies(i) = (IF Matching(i) = {} THEN 1 ELSE Cardinality(Matching(i)))
    /\ \A n \in 1..Len(OutRows) : OutRows[n].geo_i \in 1..Len(GeoIn.features)
    /\ \A n \in 1..(Len(OutRows) - 1) : OutRows[n].geo_i <= OutRows[n + 1].geo_i

\* C2 witness: a load whose output repeats one boundary row and keeps an
\* unmatched one.
C2_DuplicatedRowReached ==
  /\ pc = "unpack" /\ Succeeded
  /\ \E i \in 1..Len(GeoIn.features) : Copies(i) = 2 /\ Cardinality(Matching(i)) = 2
  /\ \E i \in 1..Len(GeoIn.features) : Copies(i) = 1 /\ Matching(i) = {}

\* C3: in every output row without a measures row, each expected numeric
\* column is present and is zero.
C3_UnmatchedRowsAllZero ==
  Succeeded =>
    \A n \in 1..Len(OutRows) :
      OutRows[n].csv_i = 0 =>
        \A c \in Range(cols_num) : c \in OutColumns /\ OutRows[n].v[c] = Num(0)

\* C4: each expected numeric column is a column of the output and holds a
\* number on every row, zero where the measures file gave no number.
C4_NumericColumnsAlwaysNumbers ==
  Succeeded =>
    \A c \in Range(cols_num) :
      /\ c \in OutColumns
      /\ \A n \in 1..Len(OutRows) :
           /\ OutRows[n].v[c].k = "num"
           /\ (OutRows[n].csv_i = 0 \/ ~CsvHas(c)) => OutRows[n].v[c] = Num(0)

\* C5: with a cluster_kmeans column, every row's id is an integer, an id in
\* 0..4 gets the catalog name of that id and any other id gets "Altres"; an
\* unparseable or missing id is -1 (so "Altres") and an integer id is kept;
\* without the column every row gets "General".
C5_ZoneLabels ==
  Succeeded =>
    \A n \in 1..Len(OutRows) :
      LET zone == OutRows[n].v["Nom_Zona"]
      IN IF CsvHas("cluster_kmeans")
         THEN LET id == OutRows[n].v["cluster_kmeans"]
                  raw == IF OutRows[n].csv_i = 0 THEN NaN
                         ELSE CsvRaw(OutRows[n].csv_i, "cluster_kmeans")
                  parsed == IF raw.k = "str" THEN ParseFloat(raw.v) ELSE NaN
              IN /\ id.k = "int"
                 /\ id.v \in {0, 1, 2, 3, 4} => zone = Str(NOMS_ZONES[id.v])
                 /\ id.v \notin {0, 1, 2, 3, 4} => zone = Str("Altres")
                 /\ parsed = NaN => id.v = 0 - 1 /\ zone = Str("Altres")
                 /\ (parsed # NaN /\ parsed.v % 10 = 0) => 10 * id.v = parsed.v
         ELSE zone = Str("General")

\* C5 witness: one output holds a row labelled from the catalog, a row
\* with an out-of-range id and a row without a measures entry, both "Altres".
C5_ZonesReached ==
  /\ pc = "unpack" /\ Succeeded /\ CsvHas("cluster_kmeans")
  /\ \E n \in 1..Len(OutRows) :
       /\ OutRows[n].v["cluster_kmeans"] = IntCell(4)
       /\ OutRows[n].v["Nom_Zona"] = Str("Zones d'Alta Saturació / Turisme")
  /\ \E n \in 1..Len(OutRows) :
       /\ OutRows[n].v["cluster_kmeans"] = IntCell(5)
       /\ OutRows[n].v["Nom_Zona"] = Str("Altres")
  /\ \E n \in 1..Len(OutRows) :
       /\ OutRows[n].csv_i = 0
       /\ OutRows[n].v["cluster_kmeans"] = IntCell(0 - 1)
       /\ OutRows[n].v["Nom_Zona"] = Str("Altres")

\* C6: the map centre is the mean centroid of the non-empty geometries
\* when there is one, and the fallback (41.39, 2.17) when there is none
\* (coordinates in hundredths of a degree).
C6_MapCenterOrFallback ==
  Succeeded =>
    LET ne == {n \in 1..Len(OutRows) : OutRows[n].v["geometry"].k = "geom"}
        center == data_loaded[2]
        ys == [n \in 1..Len(OutRows) |->
                 IF n \in ne THEN Num(OutRows[n].v["geometry"].y) ELSE NaN]
        xs == [n \in 1..Len(OutRows) |->
                 IF n \in ne THEN Num(OutRows[n].v["geometry"].x) ELSE NaN]
    IN IF ne # {}
       THEN /\ data_loaded[1].crs \in {"", "EPSG:4326"}
            /\ center.lat = [k |-> "mean", n |-> SumNums(ys), d |-> Cardinality(ne)]
            /\ center.lon = [k |-> "mean", n |-> SumNums(xs), d |-> Cardinality(ne)]
       ELSE /\ center.lat.k = "mean" /\ center.lat.n = 4139 * center.lat.d
            /\ center.lon.k = "mean" /\ center.lon.n = 217 * center.lon.d

\* C9: a boundary row and a measures row are joined exactly when their
\* names are equal after trimming and lowercasing, and the joined row
\* carries the measures value: the text "1500" as the number 1500.0.
C9_JoinOnNormalizedName ==
  Succeeded =>
    /\ \A i \in 1..Len(GeoIn.features), j \in 1..Len(CsvIn.rows) :
         (\E n \in 1..Len(OutRows) : OutRows[n].geo_i = i /\ OutRows[n].csv_i = j)
           <=> j \in Matching(i)
    /\ \A n \in 1..Len(OutRows) :
         (/\ OutRows[n].csv_i # 0
          /\ CsvHas("in_total_viajes")
          /\ CsvRaw(OutRows[n].csv_i, "in_total_viajes") = Str(T_1500))
           => OutRows[n].v["in_total_viajes"] = Num(10 * 1500)

\* C9 witness: measures name "GRÀCIA " with volume "1500" joined to the
\* boundary feature "Gràcia".
C9_GraciaJoined ==
  /\ pc = "unpack" /\ Succeeded
  /\ \E n \in 1..Len(OutRows) :
       /\ OutRows[n].csv_i # 0
       /\ GeoName(OutRows[n].geo_i) = Str(T_GRACIA)
       /\ CsvName(OutRows[n].csv_i) = Str(T_GRACIA_UPPER)
       /\ OutRows[n].v["in_total_viajes"] = Num(10 * 1500)

\* the volume of the row with index label i of the prepared table
VolOf(i) == gdf.rows[i].v["in_total_viajes"].v

\* C7 (amended): with at least top_n rows the detail table has exactly
\* top_n rows, in descending order of volume, and no row left out has a
\* strictly larger volume than a row shown.
C7_TopNDescending ==
  (pc = "done" /\ Len(gdf.rows) >= top_n) =>
    /\ Len(df_table) = top_n
    /\ \A a, b \in 1..Len(df_table) : a # b => df_table[a] # df_table[b]
    /\ \A a \in 1..(Len(df_table) - 1) : VolOf(df_table[a]) >= VolOf(df_table[a + 1])
    /\ \A i \in 1..Len(gdf.rows) :
         i \notin Range(df_table) =>
           \A a \in 1..Len(df_table) : VolOf(i) <= VolOf(df_table[a])

\* C7 (as stated): the same, and rows of equal volume keep the relative
\* order they have in the prepared table.
C7_TopNStable ==
  (pc = "done" /\ Len(gdf.rows) >= top_n) =>
    /\ C7_TopNDescending
    /\ \A a, b \in 1..Len(df_table) :
         (a < b /\ VolOf(df_table[a]) = VolOf(df_table[b])) => df_table[a] < df_table[b]

\* C7 witness: a finished run with the slider at its minimum on a table of
\* one more row, the row left out tying with the last row shown.
C7_CutOffReached ==
  /\ pc = "done" /\ top_n = TOP_N_MIN /\ Len(gdf.rows) = TOP_N_MIN + 1
  /\ Len(df_table) = TOP_N_MIN
  /\ \E i \in 1..Len(gdf.rows) :
       i \notin Range(df_table) /\ VolOf(i) = VolOf(df_table[TOP_N_MIN])

\* C10: the bar chart and the detail table of one run show the same rows,
\* the chart's category order being the table's row order reversed.
C10_ChartMatchesTable ==
  pc = "done" =>
    /\ Range(df_rank) = Range(df_table)
    /\ Len(df_rank) = Len(df_table)
    /\ \A a \in 1..Len(df_table) : df_rank[a] = df_table[Len(df_table) + 1 - a]

\* C8 (as stated): the result a run gets from load_data is the one computed
\* from the files as they are when the run calls it.
C8_FreshAfterFileChange ==
  Loaded => data_loaded = load_data(disk_at_call[FILE_CSV], disk_at_call[FILE_GEO])

\* C8 (amended): in one process the body of load_data runs at most once,
\* and every run gets the result of that one execution, computed from the
\* files as they were then, whatever the files are when the run calls it.
C8_LoadedOncePerProcess ==
  /\ body_runs <= 1
  /\ cache # NoEntry => cache.value = load_data(CsvIn, GeoIn)
  /\ Loaded => /\ body_runs = 1
               /\ data_loaded = load_data(CsvIn, GeoIn)

\* C8 witness: a run that called load_data after the files had changed and
\* got the result computed from the earlier files, a failure included.
C8_StaleResultServed ==
  /\ Loaded /\ body_runs = 1
  /\ disk_at_call # disk_at_load
  /\ Failed
  /\ load_data(disk_at_call[FILE_CSV], disk_at_call[FILE_GEO])[1].k = "table"

====
